---- MODULE Spec2Model ----
(***************************************************************************)
(* cognito-backup: the command line tool of src/cli.js, as a state machine. *)
(*                                                                         *)
(* src/cli.js holds three revisions of the program:                        *)
(*   "enrich"  lines   1-294  five commands; backupUsers enriches every    *)
(*                            user with its group names through a          *)
(*                            Bottleneck limiter                           *)
(*   "plain"   lines 296-481  backup-users, backup-all-users, restore-users *)
(*   "chain"   lines 483-557  backup-users only, a bluebird promise chain  *)
(* One run of the process executes one command of one revision, with the   *)
(* arguments the command requires.  A second run may restore the file the  *)
(* first run exported.  A stringify.write reaches the file at once; the    *)
(* write stream's 'finish' is a step of its own.                           *)
(*                                                                         *)
(* The remote service is a chain of listing pages per pool; its cursor is  *)
(* the index of the page it was returned with.  Every remote call may      *)
(* fail, within MaxFailures.  Time is a saturating counter of the          *)
(* milliseconds since the limiter last started a job.                      *)
(***************************************************************************)
EXTENDS Integers, Sequences, FiniteSets, TLC

\* ---------------------------------------------------------------- bounds
MaxPages == 3
MaxPageSize == 2
MaxRecords == 5
MaxPools == 2
MaxRestore == 2
MaxFailures == 1
TickMs == 125

\* ------------------------------------------------------ program constants
BackupMinTime == 25
RestoreMinTime == 250
UncaughtExitCode == 1
UnsettledAwaitExitCode == 13

NoToken == 0

Variants == {"enrich", "plain", "chain"}

Commands(v) ==
  CASE v = "enrich" -> {"backup-users", "backup-groups", "backup-all-users",
                        "restore-users", "restore-groups"}
    [] v = "plain"  -> {"backup-users", "backup-all-users", "restore-users"}
    [] v = "chain"  -> {"backup-users"}

VARIABLES
  variant,        \* the revision of cli.js that runs
  cmd,            \* cli.input[0]
  run,            \* 1 for the first run of the process, 2 for the second
  pageSizes,      \* the service: the sizes of the listing pages of a pool
  numPools,       \* the service: the pools listUserPools returns
  poolsMore,      \* the service: listUserPools answers with a NextToken
  argPassword,    \* the temp-password argument as typed
  failBudget,     \* remote failures still to come
  fs,             \* the files, by pool
  top,            \* the top-level await: running, resolved, caught, exited
  exitCode,
  errorReported,  \* the top-level handler has printed 'Error:'
  poolsCall,      \* listUserPools: none, inflight, done
  curPool,        \* the pool being exported (0: none)
  params,         \* params.PaginationToken / params.NextToken
  pagePc,         \* page(): idle, listing, enriching, resolved, rejected
  pageData,       \* the listing response being processed
  enrich,         \* per user of the page: pending, ok, failed
  names,          \* per user of the page: the group names its call returned
  listCalls,      \* log: the listing calls issued, [pool, token]
  listReplies,    \* log: the listing responses received, [pool, token, n]
  enrichCalls,    \* log: the adminListGroupsForUser calls started
  written,        \* log: the stringify.write calls, [pool, rec]
  endCalls,       \* stringify.end() calls of the current export
  exportFailed,   \* a listing or enrichment call of an export has failed
  callsAtFail,    \* log: the number of listing calls issued when it failed
  backupSettled,  \* per pool: pending, resolved, rejected (backupUsers' promise)
  readPc,         \* readFile: none, inflight, done
  users,          \* the parsed restore job
  pmapIdx,        \* p-map: the index of the record being mapped
  pmapState,      \* p-map: idle, pending, resolved, rejected
  groupRes,       \* per group of the current record: pending, ok, failed
  createCalls,    \* log: the create calls started, with their params
  groupCalls,     \* log: the adminAddUserToGroup calls started
  outcomes,       \* log: console.log of each response
  failedCreates,  \* log: the records whose create call failed
  failedAdds,     \* log: the <<record, group position>> whose group-add failed
  queue,          \* limiter: jobs received and not started, FIFO
  inflight,       \* limiter: jobs started and not finished
  sinceLast,      \* limiter: ms since the last job start, saturating
  starts          \* log: the jobs started, each with the ms since the start before it

cfgVars    == <<variant, pageSizes, numPools, poolsMore, argPassword>>
topVars    == <<top, exitCode, errorReported>>
exportVars == <<poolsCall, curPool, params, pagePc, pageData, enrich, names,
                listCalls, listReplies, enrichCalls, written, endCalls,
                exportFailed, callsAtFail, backupSettled>>
restoreVars == <<readPc, users, pmapIdx, pmapState, groupRes, createCalls,
                 groupCalls, outcomes, failedCreates, failedAdds>>
limVars    == <<queue, inflight, sinceLast, starts>>
vars == <<cfgVars, cmd, run, failBudget, fs, topVars, exportVars, restoreVars,
          limVars>>

\* ---------------------------------------------------------------- helpers
Min(a, b) == IF a < b THEN a ELSE b

RECURSIVE SumSeq(_)
SumSeq(s) == IF s = <<>> THEN 0 ELSE Head(s) + SumSeq(Tail(s))

SeqsUpTo(S, n) == UNION {[1..k -> S] : k \in 0..n}

Pools == 1..MaxPools

\* ------------------------------------------------------ the remote service
\* Attributes the service stores for user u; Cognito always stores a sub.
ServiceAttrs(u) ==
  CASE u % 3 = 1 -> <<[Name |-> "sub", Value |-> u], [Name |-> "email", Value |-> u]>>
    [] u % 3 = 2 -> <<[Name |-> "email", Value |-> u], [Name |-> "sub", Value |-> u],
                      [Name |-> "phone", Value |-> u]>>
    [] OTHER     -> <<[Name |-> "email", Value |-> u], [Name |-> "sub", Value |-> u]>>

\* Group memberships the service stores for user u (group names are numbers).
ServiceGroups(u) ==
  CASE u % 3 = 1 -> <<1>>
    [] u % 3 = 2 -> <<2, 1>>
    [] OTHER     -> <<>>

\* The first record number of page k (records are numbered along the chain).
PageBase(k) == SumSeq(SubSeq(pageSizes, 1, k - 1))

ServiceUser(p, u) ==
  [Username |-> <<p, u>>, Attributes |-> ServiceAttrs(u),
   hasGroups |-> FALSE, Groups |-> <<>>]

ServiceGroup(p, g) ==
  [GroupName |-> <<p, g>>, Description |-> g, Precedence |-> g, RoleArn |-> g]

\* The response to a listing call of pool p that carries cursor tok: the page
\* after the one that cursor came with, and the cursor of that page unless it
\* is the last.
ListResponse(p, tok, what) ==
  LET k == tok + 1
      n == pageSizes[k]
  IN [page |-> k,
      Items |-> [i \in 1..n |->
                   IF what = "users" THEN ServiceUser(p, PageBase(k) + i)
                                     ELSE ServiceGroup(p, PageBase(k) + i)],
      Token |-> IF k < Len(pageSizes) THEN k ELSE NoToken]

\* -------------------------------------------------------- the export file
\* JSONStream.stringify() piped to fs.createWriteStream(file): the open
\* bracket goes out with the first item (or at end() when there was none),
\* the close bracket at end().
NoFile   == [exists |-> FALSE, op |-> FALSE, items |-> <<>>, cl |-> FALSE,
             finished |-> FALSE, garbage |-> FALSE]
NewFile  == [NoFile EXCEPT !.exists = TRUE]

StreamWrite(f, item) ==
  IF f.cl THEN f ELSE [f EXCEPT !.op = TRUE, !.items = Append(@, item)]

RECURSIVE StreamWriteAll(_, _)
StreamWriteAll(f, items) ==
  IF items = <<>> THEN f
  ELSE StreamWriteAll(StreamWrite(f, Head(items)), Tail(items))

StreamEnd(f) == [f EXCEPT !.op = TRUE, !.cl = TRUE]

\* JSON.parse of what readFile returned: the items, when the text is one
\* closed array.
\* As Parseable, had the input been read by a parser that takes what it gets
\* up to the end of the file instead of JSON.parse.
Parseable_Unclosed(f) == f.exists /\ ~f.garbage

Parseable(f) == f.exists /\ f.op /\ f.cl /\ ~f.garbage

\* A restore input file holding the given records.
FileOf(items) == [exists |-> TRUE, op |-> TRUE, items |-> items, cl |-> TRUE,
                  finished |-> TRUE, garbage |-> FALSE]

\* ------------------------------------------------------------- the limiter
\* new Bottleneck({ minTime }): jobs start in the order received, one start
\* at least minTime after the last; no bound on the jobs in flight.
MinTime == IF cmd \in {"restore-users", "restore-groups"} THEN RestoreMinTime
           ELSE BackupMinTime

Job(kind, rec, sub) == [kind |-> kind, rec |-> rec, sub |-> sub]

\* As LimiterReady, had every call been wrapped by a limiter of its own: a
\* waiting job starts at once.
LimiterReady_Unshared == queue # <<>>

LimiterReady == queue # <<>> /\ sinceLast >= MinTime

\* ------------------------------------------------------ the top-level await
\* lines 285-294 (and 472-481): the catch block reports and sets exitCode;
\* lines 513-517: the chain revision reports and calls process.exit(1).
HandlerExitCode == 1

\* The concurrency option of pMap in restoreUsers / restoreGroups.
RestoreConcurrency == 1

TopCatch ==
  /\ top' = IF variant = "chain" THEN "exited" ELSE "caught"
  /\ errorReported' = TRUE
  /\ exitCode' = HandlerExitCode

\* A rejected promise nobody awaits.  Node either throws it as an uncaught
\* exception (the default from v15 on: the process dies at once, the catch
\* block is not run) or only warns (before v15, or --unhandled-rejections=warn).
UnhandledModes == {"throw", "warn"}

UnhandledRejection(mode) ==
  IF mode = "throw"
    THEN /\ top' = "exited"
         /\ exitCode' = UncaughtExitCode
         /\ UNCHANGED errorReported
    ELSE UNCHANGED topVars

\* --------------------------------------------------------------- the export
What == IF cmd = "backup-groups" THEN "groups" ELSE "users"

Enriches == variant = "enrich" /\ cmd # "backup-groups"

\* Mutant: the cursor is looked up under a field the response never has.
HasMore_WrongField(data) == FALSE

\* if (data.PaginationToken !== undefined)   /   if (data.NextToken !== undefined)
HasMore(data) == data.Token # NoToken

\* Mutant: the cursor of the response is not stored into params.
NextParams_Stale(prm, data) == prm

\* params.PaginationToken = data.PaginationToken
NextParams(prm, data) == data.Token

\* The cursor argument of cognitoIsp.listUsers(params) / listGroups(params).
CursorSent(prm) == prm

\* { ...user, Groups: groupNames }
Enriched(user, groupNames) ==
  [user EXCEPT !.hasGroups = TRUE, !.Groups = groupNames]

\* As PageRecords, had every record of the page been given the group names
\* answered for the page's first user.
PageRecords_FirstNames(data, nm) ==
  IF Enriches THEN [i \in 1..Len(data.Items) |-> Enriched(data.Items[i], nm[1])]
  ELSE data.Items

\* As PageRecords, had the records of a page come out last listed first.
PageRecords_Reversed(data, nm) ==
  LET n == Len(data.Items) IN
  IF Enriches THEN [i \in 1..n |-> Enriched(data.Items[n + 1 - i], nm[n + 1 - i])]
  ELSE [i \in 1..n |-> data.Items[n + 1 - i]]

\* The records page() writes once the page's Promise.all has resolved.
PageRecords(data, nm) ==
  IF Enriches THEN [i \in 1..Len(data.Items) |-> Enriched(data.Items[i], nm[i])]
  ELSE data.Items

\* As SinkWrites, had page() gone on to the next page without the forEach.
SinkWrites_None(p, recs) == <<>>

\* users.forEach((item) => stringify.write(item))
SinkWrites(p, recs) == [i \in 1..Len(recs) |-> [pool |-> p, rec |-> recs[i]]]

\* The listing calls issued so far for pool p.
CallsOf(p) == SelectSeq(listCalls, LAMBDA c : c.pool = p)

\* As EndCallsOnReturn, had page() not returned after await page(): every
\* nesting level of page() goes on to stringify.end().
EndCallsOnReturn_PerLevel(p) == Len(CallsOf(p))

\* stringify.end() calls when the last page has been written: one in the
\* enrich revision (return after await page()), one per nesting level of
\* page() in the plain revision (no return), one in the chain's finally.
EndCallsOnReturn(p) == IF variant = "plain" THEN Len(CallsOf(p)) ELSE 1

\* Whether the revision ends the JSON stream when page() rejects: only the
\* chain revision does (.finally at lines 552-555).
EndsOnReject == variant = "chain"

\* backupUsers(cognitoIsp, userPoolId, file) up to the first await of page():
\* the file is created, the stream and a fresh limiter made, listing called.
BeginBackup(p, files, settled) ==
  /\ curPool' = p
  /\ fs' = [files EXCEPT ![p] = NewFile]
  /\ params' = NoToken
  /\ listCalls' = Append(listCalls, [pool |-> p, token |-> CursorSent(params')])
  /\ pagePc' = "listing"
  /\ endCalls' = 0
  /\ backupSettled' = [settled EXCEPT ![p] = "pending"]
  /\ queue' = <<>>
  /\ inflight' = {}
  /\ sinceLast' = BackupMinTime
  /\ UNCHANGED <<pageData, enrich, names, listReplies, enrichCalls, written,
                 exportFailed, callsAtFail, starts>>

\* page() after the page's records are ready: write them, then fetch the
\* next page or end the stream.
FinishPage(data, recs) ==
  /\ written' = written \o SinkWrites(curPool, recs)
  /\ IF HasMore(data)
       THEN /\ params' = NextParams(params, data)
            /\ listCalls' = Append(listCalls,
                              [pool |-> curPool, token |-> CursorSent(params')])
            /\ pagePc' = "listing"
            /\ fs' = [fs EXCEPT ![curPool] = StreamWriteAll(@, recs)]
            /\ endCalls' = endCalls
       ELSE /\ pagePc' = "resolved"
            /\ fs' = [fs EXCEPT ![curPool] = StreamEnd(StreamWriteAll(@, recs))]
            /\ endCalls' = endCalls + EndCallsOnReturn(curPool)
            /\ UNCHANGED <<params, listCalls>>

\* page() rejects.  Nothing awaits it in the enrich and plain revisions
\* (line 111, line 382: page(); without await or catch).
PageRejects(mode) ==
  /\ pagePc' = "rejected"
  /\ exportFailed' = TRUE
  /\ callsAtFail' = Len(listCalls)
  /\ IF EndsOnReject
       THEN /\ fs' = [fs EXCEPT ![curPool] = StreamEnd(@)]
            /\ endCalls' = endCalls + 1
            /\ UNCHANGED topVars
       ELSE /\ UNCHANGED <<fs, endCalls>>
            /\ UnhandledRejection(mode)

\* backupUsersCli / backupGroupsCli
BackupCli ==
  /\ top = "start"
  /\ cmd \in {"backup-users", "backup-groups"}
  /\ top' = "running"
  /\ BeginBackup(1, fs, backupSettled)
  /\ UNCHANGED <<cfgVars, cmd, run, failBudget, exitCode, errorReported,
                 poolsCall, restoreVars>>

\* backupAllUsersCli: mkdirp, then listUserPools({ MaxResults: 60 })
BackupAllUsersCli ==
  /\ top = "start"
  /\ cmd = "backup-all-users"
  /\ top' = "running"
  /\ poolsCall' = "inflight"
  /\ UNCHANGED <<cfgVars, cmd, run, failBudget, fs, exitCode, errorReported,
                 curPool, params, pagePc, pageData, enrich, names, listCalls,
                 listReplies, enrichCalls, written, endCalls, exportFailed, callsAtFail,
                 backupSettled, restoreVars, limVars>>

\* Mutant: the assertion is missing.
AssertFails_Never(more) == FALSE

\* assert(!data.NextToken, 'More than 60 user pools is not yet supported')
AssertFails(more) == more

\* listUserPools answers: the assert on NextToken, then pMap over the pool
\* ids with concurrency 1 starts the first pool's export.
ListUserPoolsReturn ==
  /\ top = "running"
  /\ poolsCall = "inflight"
  /\ poolsCall' = "done"
  /\ IF AssertFails(poolsMore)
       THEN /\ TopCatch
            /\ UNCHANGED <<fs, curPool, params, pagePc, pageData, enrich, names,
                           listCalls, listReplies, enrichCalls, written,
                           endCalls, exportFailed, callsAtFail, backupSettled, limVars>>
       ELSE IF numPools = 0
         THEN /\ top' = "resolved"
              /\ UNCHANGED <<exitCode, errorReported, fs, curPool, params,
                             pagePc, pageData, enrich, names, listCalls,
                             listReplies, enrichCalls, written, endCalls,
                             exportFailed, callsAtFail, backupSettled, limVars>>
         ELSE /\ BeginBackup(1, fs, backupSettled)
              /\ UNCHANGED topVars
  /\ UNCHANGED <<cfgVars, cmd, run, failBudget, restoreVars>>

ListUserPoolsFail ==
  /\ top = "running"
  /\ poolsCall = "inflight"
  /\ failBudget > 0
  /\ failBudget' = failBudget - 1
  /\ poolsCall' = "done"
  /\ TopCatch
  /\ UNCHANGED <<cfgVars, cmd, run, fs, curPool, params, pagePc, pageData,
                 enrich, names, listCalls, listReplies, enrichCalls, written,
                 endCalls, exportFailed, callsAtFail, backupSettled, restoreVars, limVars>>

\* listUsers / listGroups answers.
ListReturn ==
  /\ top = "running"
  /\ pagePc = "listing"
  /\ LET call == listCalls[Len(listCalls)]
         data == ListResponse(curPool, call.token, What)
         n    == Len(data.Items)
     IN /\ listReplies' = Append(listReplies,
                            [pool |-> curPool, token |-> data.Token, n |-> n])
        /\ pageData' = data
        /\ IF Enriches /\ n > 0
             THEN /\ pagePc' = "enriching"
                  /\ enrich' = [i \in 1..n |-> "pending"]
                  /\ names' = [i \in 1..n |-> <<>>]
                  /\ queue' = queue \o [i \in 1..n |-> Job("enrich", i, data.page)]
                  /\ UNCHANGED <<fs, params, listCalls, written, endCalls,
                                 inflight, sinceLast, starts>>
             ELSE /\ FinishPage(data, PageRecords(data, <<>>))
                  /\ UNCHANGED <<enrich, names, limVars>>
  /\ UNCHANGED <<cfgVars, cmd, run, failBudget, topVars, poolsCall, curPool,
                 enrichCalls, exportFailed, callsAtFail, backupSettled, restoreVars>>

ListFail ==
  /\ top = "running"
  /\ pagePc = "listing"
  /\ failBudget > 0
  /\ failBudget' = failBudget - 1
  /\ \E mode \in UnhandledModes : PageRejects(mode)
  /\ UNCHANGED <<cfgVars, cmd, run, poolsCall, curPool, params, pageData,
                 enrich, names, listCalls, listReplies, enrichCalls, written,
                 backupSettled, restoreVars, limVars>>

\* -------------------------------------------------------------- the restore
\* Mutant: only the first 'sub' attribute is removed.
RECURSIVE StripSub_FirstOnly(_)
StripSub_FirstOnly(attrs) ==
  IF attrs = <<>> THEN <<>>
  ELSE IF Head(attrs).Name = "sub" THEN Tail(attrs)
  ELSE <<Head(attrs)>> \o StripSub_FirstOnly(Tail(attrs))

\* user.Attributes.filter((attribute) => attribute.Name !== 'sub')
RECURSIVE StripSub(_)
StripSub(attrs) ==
  IF attrs = <<>> THEN <<>>
  ELSE IF Head(attrs).Name # "sub" THEN <<Head(attrs)>> \o StripSub(Tail(attrs))
  ELSE StripSub(Tail(attrs))

\* Mutant: a fixed password instead of the argument.
TempPassword_Fixed == "pw-A"

\* tempPassword.toString()
TempPassword == argPassword

\* The params of adminCreateUser (lines 208-216), of createGroup (257-263).
CreateParams(rec) ==
  IF cmd = "restore-groups"
    THEN [GroupName |-> rec.GroupName, Description |-> rec.Description,
          Precedence |-> rec.Precedence, RoleArn |-> rec.RoleArn]
    ELSE [Username |-> rec.Username,
          MessageAction |-> "SUPPRESS",
          TemporaryPassword |-> TempPassword,
          UserAttributes |-> StripSub(rec.Attributes)]

\* Mutant: every group-add of a record names the record's first group.
GroupParams_FirstGroup(rec, g) ==
  [Username |-> rec.Username, GroupName |-> rec.Groups[1]]

\* The params of adminAddUserToGroup for the g-th group of the record.
GroupParams(rec, g) == [Username |-> rec.Username, GroupName |-> rec.Groups[g]]

\* if (user.Groups): the group-add calls exist in the enrich revision only.
AddsGroups(rec) == variant = "enrich" /\ cmd = "restore-users" /\ rec.hasGroups

\* Mutant: only the first group-add is handed to the limiter.
GroupJobs_OnlyFirst(i, rec) == <<Job("groupAdd", i, 1)>>

\* user.Groups.map(async (group) => ...) inside Promise.all: every group-add
\* of record i is handed to the limiter at once.
GroupJobs(i, rec) == [g \in 1..Len(rec.Groups) |-> Job("groupAdd", i, g)]

\* Mutant: pMap is called with stopOnError: false.
StopOnError_Off == FALSE

\* p-map's stopOnError option; the code passes { concurrency: 1 } only, so
\* the default applies: the first rejected mapper rejects pMap, and no
\* further record is mapped.
StopOnError == TRUE

\* The limiter starts its oldest job: the wrapped remote call goes out.
LimiterStart ==
  /\ top \notin {"start", "exited"}
  /\ LimiterReady
  /\ LET job == Head(queue) IN
     /\ queue' = Tail(queue)
     /\ inflight' = inflight \cup {job}
     /\ sinceLast' = 0
     /\ starts' = Append(starts, [kind |-> job.kind, rec |-> job.rec,
                                  sub |-> job.sub, gap |-> sinceLast])
     /\ enrichCalls' =
          IF job.kind = "enrich"
            THEN Append(enrichCalls, [pool |-> curPool, page |-> job.sub,
                                      Username |-> pageData.Items[job.rec].Username])
            ELSE enrichCalls
     /\ createCalls' =
          IF job.kind = "create"
            THEN Append(createCalls, [idx |-> job.rec,
                                      params |-> CreateParams(users[job.rec])])
            ELSE createCalls
     /\ groupCalls' =
          IF job.kind = "groupAdd"
            THEN Append(groupCalls, [idx |-> job.rec, pos |-> job.sub,
                                     params |-> GroupParams(users[job.rec], job.sub)])
            ELSE groupCalls
  /\ UNCHANGED <<cfgVars, cmd, run, failBudget, fs, topVars, poolsCall, curPool,
                 params, pagePc, pageData, enrich, names, listCalls, listReplies,
                 written, endCalls, exportFailed, callsAtFail, backupSettled, readPc, users,
                 pmapIdx, pmapState, groupRes, outcomes, failedCreates, failedAdds>>

\* Time passes.
Tick ==
  /\ top \notin {"start", "exited"}
  /\ sinceLast < MinTime
  /\ sinceLast' = Min(sinceLast + TickMs, MinTime)
  /\ UNCHANGED <<cfgVars, cmd, run, failBudget, fs, topVars, exportVars,
                 restoreVars, queue, inflight, starts>>

\* As AllEnriched, had page() gone on at the first answer (Promise.race or
\* Promise.any in the place of Promise.all).
AllEnriched_Any(st) == \E j \in DOMAIN st : st[j] = "ok"

\* As AllEnriched, had page() awaited the first user's promise only.
AllEnriched_First(st) == st[1] = "ok"

\* Promise.all over the enrichment promises of a page resolves when every one
\* of them has resolved.
AllEnriched(st) == \A j \in DOMAIN st : st[j] = "ok"

\* adminListGroupsForUser answers for user i of the page; when it was the
\* last one Promise.all resolves and page() goes on.
EnrichReturn(i) ==
  /\ top # "exited"
  /\ Job("enrich", i, pageData.page) \in inflight
  /\ inflight' = inflight \ {Job("enrich", i, pageData.page)}
  /\ LET nm == [names EXCEPT ![i] = ServiceGroups(pageData.Items[i].Username[2])]
         st == [enrich EXCEPT ![i] = "ok"]
     IN /\ names' = nm
        /\ enrich' = st
        /\ IF pagePc = "enriching" /\ AllEnriched(st)
             THEN FinishPage(pageData, PageRecords(pageData, nm))
             ELSE UNCHANGED <<fs, params, pagePc, listCalls, written, endCalls>>
  /\ UNCHANGED <<cfgVars, cmd, run, failBudget, topVars, poolsCall, curPool,
                 pageData, listReplies, enrichCalls, exportFailed, callsAtFail, backupSettled,
                 restoreVars, queue, sinceLast, starts>>

\* adminListGroupsForUser fails for user i: Promise.all rejects at the first
\* failure, the other calls of the page go on.
EnrichFail(i) ==
  /\ top # "exited"
  /\ Job("enrich", i, pageData.page) \in inflight
  /\ failBudget > 0
  /\ failBudget' = failBudget - 1
  /\ inflight' = inflight \ {Job("enrich", i, pageData.page)}
  /\ enrich' = [enrich EXCEPT ![i] = "failed"]
  /\ IF pagePc = "enriching"
       THEN \E mode \in UnhandledModes : PageRejects(mode)
       ELSE UNCHANGED <<fs, pagePc, endCalls, exportFailed, callsAtFail, topVars>>
  /\ UNCHANGED <<cfgVars, cmd, run, poolsCall, curPool, params, pageData, names,
                 listCalls, listReplies, enrichCalls, written, backupSettled,
                 restoreVars, queue, sinceLast, starts>>

IsBackup == cmd \in {"backup-users", "backup-groups", "backup-all-users"}

\* As FinishPending, had backupUsers not awaited pipeline(): its promise would
\* resolve while the pages are still being fetched.
FinishPending_NoAwait ==
  /\ IsBackup
  /\ curPool # 0
  /\ ~fs[curPool].finished

\* The write stream of the current export has been ended and not yet finished.
FinishPending ==
  /\ IsBackup
  /\ curPool # 0
  /\ fs[curPool].cl
  /\ ~fs[curPool].finished

\* The write stream emits 'finish'.  In the enrich and plain revisions that
\* resolves pipeline() and with it backupUsers; pMap then maps the next pool.
PipelineFinish ==
  /\ top \in {"running", "resolved"}
  /\ FinishPending
  /\ LET files   == [fs EXCEPT ![curPool].finished = TRUE]
         settled == [backupSettled EXCEPT ![curPool] = "resolved"]
     IN IF variant = "chain"
          THEN /\ fs' = files
               /\ UNCHANGED <<topVars, exportVars, limVars>>
          ELSE IF cmd = "backup-all-users" /\ curPool < numPools
            THEN /\ BeginBackup(curPool + 1, files, settled)
                 /\ UNCHANGED <<topVars, poolsCall>>
            ELSE /\ fs' = files
                 /\ backupSettled' = settled
                 /\ top' = "resolved"
                 /\ UNCHANGED <<exitCode, errorReported, poolsCall, curPool,
                                params, pagePc, pageData, enrich, names,
                                listCalls, listReplies, enrichCalls, written,
                                endCalls, exportFailed, callsAtFail, limVars>>
  /\ UNCHANGED <<cfgVars, cmd, run, failBudget, restoreVars>>

\* What process.exit() leaves of a file whose write stream has not finished:
\* any prefix of the items, or all of it.
LeftOnExit(f) ==
  IF f.finished THEN {f}
  ELSE {f} \cup {[f EXCEPT !.items = SubSeq(f.items, 1, k), !.op = (k > 0),
                           !.cl = FALSE] : k \in 0..Len(f.items)}

\* The chain revision: the two .finally() steps are done and the promise of
\* backupUsers settles; on rejection the catch reports and calls process.exit(1).
ChainSettle ==
  /\ variant = "chain"
  /\ top = "running"
  /\ pagePc \in {"resolved", "rejected"}
  /\ IF pagePc = "resolved"
       THEN /\ top' = "resolved"
            /\ backupSettled' = [backupSettled EXCEPT ![curPool] = "resolved"]
            /\ UNCHANGED <<exitCode, errorReported, fs>>
       ELSE /\ TopCatch
            /\ backupSettled' = [backupSettled EXCEPT ![curPool] = "rejected"]
            /\ \E f \in LeftOnExit(fs[curPool]) : fs' = [fs EXCEPT ![curPool] = f]
  /\ UNCHANGED <<cfgVars, cmd, run, failBudget, poolsCall, curPool, params,
                 pagePc, pageData, enrich, names, listCalls, listReplies,
                 enrichCalls, written, endCalls, exportFailed, callsAtFail, restoreVars,
                 limVars>>

\* Nothing is pending in the event loop.
Idle ==
  /\ poolsCall # "inflight"
  /\ pagePc # "listing"
  /\ readPc # "inflight"
  /\ queue = <<>>
  /\ inflight = {}
  /\ ~FinishPending

\* The event loop is empty after the top-level await is over: the process
\* exits with process.exitCode.
Exit ==
  /\ top \in {"resolved", "caught"}
  /\ Idle
  /\ top' = "exited"
  /\ UNCHANGED <<cfgVars, cmd, run, failBudget, fs, exitCode, errorReported,
                 exportVars, restoreVars, limVars>>

\* The event loop is empty while the top-level await is still pending (page()
\* rejected and pipeline() never settles): Node gives up with exit code 13.
\* The chain revision has no top-level await; its promise always settles.
UnsettledAwaitExit ==
  /\ variant # "chain"
  /\ top = "running"
  /\ Idle
  /\ top' = "exited"
  /\ exitCode' = UnsettledAwaitExitCode
  /\ UNCHANGED <<cfgVars, cmd, run, failBudget, fs, errorReported, exportVars,
                 restoreVars, limVars>>

\* ------------------------------------------------------- the restore steps
IsRestore == cmd \in {"restore-users", "restore-groups"}

\* restoreUsers / restoreGroups up to the await of readFile: a fresh limiter.
RestoreCli ==
  /\ top = "start"
  /\ IsRestore
  /\ top' = "running"
  /\ readPc' = "inflight"
  /\ queue' = <<>>
  /\ inflight' = {}
  /\ sinceLast' = RestoreMinTime
  /\ UNCHANGED <<cfgVars, cmd, run, failBudget, fs, exitCode, errorReported,
                 exportVars, users, pmapIdx, pmapState, groupRes, createCalls,
                 groupCalls, outcomes, failedCreates, failedAdds, starts>>

\* p-map's next(): record i has settled (failedNow: its mapper rejected).
NextRecord(i, failedNow) ==
  LET errs == failedNow \/ pmapState = "failing" IN
  IF failedNow /\ StopOnError
    THEN /\ pmapState' = "rejected"
         /\ TopCatch
         /\ UNCHANGED <<pmapIdx, queue>>
    ELSE IF i < Len(users)
      THEN /\ pmapIdx' = i + 1
           /\ pmapState' = IF errs THEN "failing" ELSE "pending"
           /\ queue' = Append(queue, Job("create", i + 1, 0))
           /\ UNCHANGED topVars
      ELSE IF errs
        THEN /\ pmapState' = "rejected"
             /\ TopCatch
             /\ UNCHANGED <<pmapIdx, queue>>
        ELSE /\ pmapState' = "resolved"
             /\ top' = "resolved"
             /\ UNCHANGED <<exitCode, errorReported, pmapIdx, queue>>

\* readFile and JSON.parse are done: a missing or unparseable file rejects
\* the restore; otherwise pMap maps the first record.
ReadFileReturn ==
  /\ top = "running"
  /\ readPc = "inflight"
  /\ readPc' = "done"
  /\ IF ~Parseable(fs[1])
       THEN /\ TopCatch
            /\ UNCHANGED <<users, pmapIdx, pmapState, queue>>
       ELSE /\ users' = fs[1].items
            /\ IF fs[1].items = <<>>
                 THEN /\ pmapState' = "resolved"
                      /\ top' = "resolved"
                      /\ UNCHANGED <<exitCode, errorReported, pmapIdx, queue>>
                 ELSE /\ pmapState' = "pending"
                      /\ pmapIdx' = 1
                      /\ queue' = Append(queue, Job("create", 1, 0))
                      /\ UNCHANGED topVars
  /\ UNCHANGED <<cfgVars, cmd, run, failBudget, fs, exportVars, groupRes,
                 createCalls, groupCalls, outcomes, failedCreates, failedAdds, inflight, sinceLast, starts>>

\* The mapper of record i is still pending.
MapperPending(i) == i = pmapIdx /\ pmapState \in {"pending", "failing"}

\* adminCreateUser / createGroup answers for record i: the response is
\* logged; a user with a Groups field gets its group-add jobs, all at once.
CreateReturn(i) ==
  /\ top # "exited"
  /\ Job("create", i, 0) \in inflight
  /\ inflight' = inflight \ {Job("create", i, 0)}
  /\ outcomes' = Append(outcomes, [idx |-> i, call |-> "create"])
  /\ UNCHANGED <<failedCreates, failedAdds>>
  /\ IF AddsGroups(users[i]) /\ users[i].Groups # <<>>
       THEN /\ groupRes' = [g \in 1..Len(users[i].Groups) |-> "pending"]
            /\ queue' = queue \o GroupJobs(i, users[i])
            /\ UNCHANGED <<topVars, pmapIdx, pmapState>>
       ELSE /\ NextRecord(i, FALSE)
            /\ UNCHANGED groupRes
  /\ UNCHANGED <<cfgVars, cmd, run, failBudget, fs, exportVars, readPc, users,
                 createCalls, groupCalls, sinceLast, starts>>

\* adminCreateUser / createGroup fails for record i: the mapper rejects.
CreateFail(i) ==
  /\ top # "exited"
  /\ Job("create", i, 0) \in inflight
  /\ failBudget > 0
  /\ failBudget' = failBudget - 1
  /\ inflight' = inflight \ {Job("create", i, 0)}
  /\ NextRecord(i, TRUE)
  /\ failedCreates' = failedCreates \cup {i}
  /\ UNCHANGED <<cfgVars, cmd, run, fs, exportVars, readPc, users, groupRes,
                 createCalls, groupCalls, outcomes, failedAdds, sinceLast, starts>>

\* adminAddUserToGroup answers for group g of record i; when it was the last
\* one the record's Promise.all resolves and the mapper with it.
GroupAddReturn(i, g) ==
  /\ top # "exited"
  /\ Job("groupAdd", i, g) \in inflight
  /\ inflight' = inflight \ {Job("groupAdd", i, g)}
  /\ outcomes' = Append(outcomes, [idx |-> i, call |-> "groupAdd"])
  /\ UNCHANGED <<failedCreates, failedAdds>>
  /\ IF MapperPending(i)
       THEN LET st == [groupRes EXCEPT ![g] = "ok"] IN
            /\ groupRes' = st
            /\ IF \A h \in DOMAIN st : st[h] = "ok"
                 THEN NextRecord(i, FALSE)
                 ELSE UNCHANGED <<topVars, pmapIdx, pmapState, queue>>
       ELSE UNCHANGED <<topVars, pmapIdx, pmapState, queue, groupRes>>
  /\ UNCHANGED <<cfgVars, cmd, run, failBudget, fs, exportVars, readPc, users,
                 createCalls, groupCalls, sinceLast, starts>>

\* adminAddUserToGroup fails for group g of record i: the record's
\* Promise.all rejects at the first failure and the mapper with it; the
\* group-add jobs already handed to the limiter stay queued.
GroupAddFail(i, g) ==
  /\ top # "exited"
  /\ Job("groupAdd", i, g) \in inflight
  /\ failBudget > 0
  /\ failBudget' = failBudget - 1
  /\ inflight' = inflight \ {Job("groupAdd", i, g)}
  /\ IF MapperPending(i)
       THEN /\ groupRes' = [groupRes EXCEPT ![g] = "failed"]
            /\ NextRecord(i, TRUE)
       ELSE UNCHANGED <<topVars, pmapIdx, pmapState, queue, groupRes>>
  /\ failedAdds' = failedAdds \cup {<<i, g>>}
  /\ UNCHANGED <<cfgVars, cmd, run, fs, exportVars, readPc, users, createCalls,
                 groupCalls, outcomes, failedCreates, sinceLast, starts>>

\* ------------------------------------------------------------ a second run
Passwords == {"pw-A", "1234"}

\* The process is run again, to restore the file the first run exported.
SecondRun ==
  /\ top = "exited"
  /\ run = 1
  /\ cmd \in {"backup-users", "backup-groups"}
  /\ variant # "chain"
  /\ run' = 2
  /\ cmd' = IF cmd = "backup-users" THEN "restore-users" ELSE "restore-groups"
  /\ argPassword' \in Passwords
  /\ top' = "start"
  /\ exitCode' = 0
  /\ errorReported' = FALSE
  /\ queue' = <<>>
  /\ inflight' = {}
  /\ sinceLast' = RestoreMinTime
  /\ UNCHANGED <<variant, pageSizes, numPools, poolsMore, failBudget, fs,
                 exportVars, restoreVars, starts>>

\* ------------------------------------------------------------ initial state
PageChains == {s \in SeqsUpTo(0..MaxPageSize, MaxPages) :
                 Len(s) >= 1 /\ SumSeq(s) <= MaxRecords}

\* The i-th record of a restore input file, of one of four kinds.
InputUser(i, kind) ==
  CASE kind = 1 -> [Username |-> <<1, i>>, hasGroups |-> FALSE, Groups |-> <<>>,
                    Attributes |-> <<[Name |-> "sub", Value |-> i],
                                     [Name |-> "email", Value |-> i]>>]
    [] kind = 2 -> [Username |-> <<1, i>>, hasGroups |-> TRUE, Groups |-> <<>>,
                    Attributes |-> <<[Name |-> "email", Value |-> i],
                                     [Name |-> "sub", Value |-> i],
                                     [Name |-> "phone", Value |-> i]>>]
    [] kind = 3 -> [Username |-> <<1, i>>, hasGroups |-> TRUE, Groups |-> <<1>>,
                    Attributes |-> <<[Name |-> "email", Value |-> i]>>]
    [] OTHER    -> [Username |-> <<1, i>>, hasGroups |-> TRUE, Groups |-> <<2, 1>>,
                    Attributes |-> <<[Name |-> "sub", Value |-> i],
                                     [Name |-> "email", Value |-> i],
                                     [Name |-> "sub", Value |-> i + 1]>>]

InputKinds == 1..4

InputFiles(c) ==
  {NoFile, [NewFile EXCEPT !.garbage = TRUE]} \cup
  IF c = "restore-groups"
    THEN {FileOf([i \in 1..n |-> ServiceGroup(1, i)]) : n \in 0..MaxRestore}
    ELSE {FileOf([i \in 1..Len(ks) |-> InputUser(i, ks[i])]) :
            ks \in SeqsUpTo(InputKinds, MaxRestore)}

Init ==
  /\ variant \in Variants
  /\ cmd \in Commands(variant)
  /\ run = 1
  /\ pageSizes \in IF IsBackup THEN PageChains ELSE {<<0>>}
  /\ numPools \in IF cmd = "backup-all-users" THEN 0..MaxPools ELSE {1}
  /\ poolsMore \in IF cmd = "backup-all-users" THEN BOOLEAN ELSE {FALSE}
  /\ argPassword \in IF cmd = "restore-users" THEN Passwords ELSE {"pw-A"}
  /\ failBudget = MaxFailures
  /\ fs \in IF IsBackup THEN {[p \in Pools |-> NoFile]}
            ELSE {[p \in Pools |-> IF p = 1 THEN f ELSE NoFile] :
                    f \in InputFiles(cmd)}
  /\ top = "start"
  /\ exitCode = 0
  /\ errorReported = FALSE
  /\ poolsCall = "none"
  /\ curPool = 0
  /\ params = NoToken
  /\ pagePc = "idle"
  /\ pageData = [page |-> 0, Items |-> <<>>, Token |-> NoToken]
  /\ enrich = <<>>
  /\ names = <<>>
  /\ listCalls = <<>>
  /\ listReplies = <<>>
  /\ enrichCalls = <<>>
  /\ written = <<>>
  /\ endCalls = 0
  /\ exportFailed = FALSE
  /\ callsAtFail = 0
  /\ backupSettled = [p \in Pools |-> "none"]
  /\ readPc = "none"
  /\ users = <<>>
  /\ pmapIdx = 0
  /\ pmapState = "idle"
  /\ groupRes = <<>>
  /\ createCalls = <<>>
  /\ groupCalls = <<>>
  /\ outcomes = <<>>
  /\ failedCreates = {}
  /\ failedAdds = {}
  /\ queue = <<>>
  /\ inflight = {}
  /\ sinceLast = 0
  /\ starts = <<>>

Next ==
  \/ BackupCli
  \/ BackupAllUsersCli
  \/ ListUserPoolsReturn
  \/ ListUserPoolsFail
  \/ ListReturn
  \/ ListFail
  \/ LimiterStart
  \/ Tick
  \/ \E j \in inflight : j.kind = "enrich" /\ EnrichReturn(j.rec)
  \/ \E j \in inflight : j.kind = "enrich" /\ EnrichFail(j.rec)
  \/ PipelineFinish
  \/ ChainSettle
  \/ Exit
  \/ UnsettledAwaitExit
  \/ RestoreCli
  \/ ReadFileReturn
  \/ \E j \in inflight : j.kind = "create" /\ CreateReturn(j.rec)
  \/ \E j \in inflight : j.kind = "create" /\ CreateFail(j.rec)
  \/ \E j \in inflight : j.kind = "groupAdd" /\ GroupAddReturn(j.rec, j.sub)
  \/ \E j \in inflight : j.kind = "groupAdd" /\ GroupAddFail(j.rec, j.sub)
  \/ SecondRun

Spec == Init /\ [][Next]_vars

\* ================================================================ claims
WritesOf(p)  == SelectSeq(written, LAMBDA w : w.pool = p)
RepliesOf(p) == SelectSeq(listReplies, LAMBDA r : r.pool = p)

KeyOf(rec) == IF "Username" \in DOMAIN rec THEN rec.Username ELSE rec.GroupName

ListedKeys(p) == {<<p, u>> : u \in 1..SumSeq(pageSizes)}

CreateCount(i) == Cardinality({c \in 1..Len(createCalls) : createCalls[c].idx = i})

GroupAddCount(i, g) ==
  Cardinality({c \in 1..Len(groupCalls) :
                 groupCalls[c].idx = i /\ groupCalls[c].pos = g})

CreateOutcomes ==
  Cardinality({o \in 1..Len(outcomes) : outcomes[o].call = "create"})

RestoresUsers == cmd = "restore-users" /\ variant = "enrich"

\* C1: when the export of a pool completes (no call of it failed), the sink
\* has received exactly one write per listed record: as many writes as the
\* pages hold records, no record twice, none missing, and the file holds them.
C1_OneWritePerRecord ==
  \A p \in Pools :
    backupSettled[p] = "resolved" =>
      LET w == WritesOf(p) IN
      /\ Len(w) = SumSeq(pageSizes)
      /\ \A i, j \in 1..Len(w) : i # j => KeyOf(w[i].rec) # KeyOf(w[j].rec)
      /\ {KeyOf(w[i].rec) : i \in 1..Len(w)} = ListedKeys(p)
      /\ fs[p].items = [i \in 1..Len(w) |-> w[i].rec]

C1_Witness ==
  /\ variant = "enrich"
  /\ cmd = "backup-users"
  /\ pageSizes = <<2, 2, 1>>
  /\ backupSettled[1] = "resolved"
  /\ Len(WritesOf(1)) = 5

\* C2: the first listing call of an export carries no cursor; the N+1st
\* carries the cursor the Nth response returned, unmodified; no cursor is sent
\* twice; no call follows a response without cursor; and once the export has
\* completed every returned cursor has been sent.
C2_CursorRoundTrip ==
  \A p \in Pools :
    LET calls   == CallsOf(p)
        replies == RepliesOf(p)
    IN /\ Len(replies) <= Len(calls)
       /\ Len(calls) <= Len(replies) + 1
       /\ calls # <<>> => calls[1].token = NoToken
       /\ \A n \in 2..Len(calls) :
            /\ replies[n - 1].token # NoToken
            /\ calls[n].token = replies[n - 1].token
       /\ \A i, j \in 2..Len(calls) : i # j => calls[i].token # calls[j].token
       /\ backupSettled[p] = "resolved" =>
            \A n \in 1..Len(replies) : replies[n].token # NoToken => Len(calls) > n

C2_Witness ==
  /\ Len(CallsOf(1)) = 3
  /\ CallsOf(1)[3].token = 2
  /\ backupSettled[1] = "resolved"

\* C3: when the process of an export ends, the JSON stream of the pool it was
\* exporting has been ended, on the failure path as on the success path.
C3_SinkEndedOnEveryPath ==
  (IsBackup /\ top = "exited" /\ curPool # 0) => fs[curPool].cl

\* C4: a failed listing or enrichment call aborts the export: no listing call
\* is issued after it, the promise of backupUsers/backupGroups rejects, and
\* the top-level handler reports the error and sets a non-zero exit code.
C4_FailurePropagates ==
  (IsBackup /\ exportFailed) =>
    /\ Len(listCalls) = callsAtFail
    /\ top = "exited" =>
         /\ backupSettled[curPool] = "rejected"
         /\ errorReported
         /\ exitCode # 0

GroupAddOnlyAfterCreate ==
  \A c \in 1..Len(groupCalls) :
    \E o \in 1..Len(outcomes) :
      outcomes[o].idx = groupCalls[c].idx /\ outcomes[o].call = "create"

\* When nothing fails, a record with k group references gets exactly k
\* group-add calls, one per referenced group, and a record without Groups
\* field gets none.
GroupAddsWhenNothingFails ==
  pmapState = "resolved" =>
    /\ \A i \in 1..Len(users) :
         IF users[i].hasGroups
           THEN \A g \in 1..Len(users[i].Groups) :
                  /\ GroupAddCount(i, g) = 1
                  /\ \A c \in 1..Len(groupCalls) :
                       (groupCalls[c].idx = i /\ groupCalls[c].pos = g) =>
                         groupCalls[c].params =
                           [Username |-> users[i].Username,
                            GroupName |-> users[i].Groups[g]]
           ELSE \A c \in 1..Len(groupCalls) : groupCalls[c].idx # i
    /\ Len(groupCalls) =
         SumSeq([i \in 1..Len(users) |->
                   IF users[i].hasGroups THEN Len(users[i].Groups) ELSE 0])

\* A record whose create call failed gets no group-add call.
NoGroupAddAfterFailedCreate ==
  \A k \in failedCreates : \A c \in 1..Len(groupCalls) : groupCalls[c].idx # k

AllGroupAddsIssued(i) == \A h \in 1..Len(users[i].Groups) : GroupAddCount(i, h) = 1

NonSubIdx(attrs) == {i \in 1..Len(attrs) : attrs[i].Name # "sub"}

\* The index of the k-th attribute that is not named 'sub'.
KthNonSub(attrs, k) ==
  CHOOSE i \in NonSubIdx(attrs) :
    Cardinality({j \in NonSubIdx(attrs) : j < i}) = k - 1

\* C8: the attribute list of every create call of restore-users holds no
\* attribute named 'sub' and every other attribute of the record, unchanged
\* and in the record's order.
C8_SubStripped ==
  cmd = "restore-users" =>
    \A c \in 1..Len(createCalls) :
      LET given == users[createCalls[c].idx].Attributes
          sent  == createCalls[c].params.UserAttributes
      IN /\ \A i \in 1..Len(sent) : sent[i].Name # "sub"
         /\ Len(sent) = Cardinality(NonSubIdx(given))
         /\ \A k \in 1..Len(sent) : sent[k] = given[KthNonSub(given, k)]

C8_Witness ==
  /\ cmd = "restore-users"
  /\ \E c \in 1..Len(createCalls) :
       LET given == users[createCalls[c].idx].Attributes
           sent  == createCalls[c].params.UserAttributes
       IN /\ Len(given) = 3
          /\ given[1].Name = "sub" /\ given[3].Name = "sub"
          /\ sent = <<given[2]>>

\* C9: backup-users, then restore-users of the exported file, nothing
\* failing: one create call per listed record, same usernames, each carrying
\* the temporary password given for the job.
C9_RoundTrip ==
  (run = 2 /\ cmd = "restore-users" /\ backupSettled[1] = "resolved"
     /\ pmapState = "resolved") =>
    /\ Len(createCalls) = SumSeq(pageSizes)
    /\ \A k \in ListedKeys(1) :
         Cardinality({c \in 1..Len(createCalls) :
                        createCalls[c].params.Username = k}) = 1
    /\ \A c \in 1..Len(createCalls) :
         createCalls[c].params.TemporaryPassword = argPassword

C9_Witness ==
  /\ run = 2
  /\ cmd = "restore-users"
  /\ pageSizes = <<2, 2, 1>>
  /\ argPassword = "1234"
  /\ pmapState = "resolved"
  /\ Len(createCalls) = 5
  /\ top = "exited"

\* C10: when listUserPools answers with a NextToken, backup-all-users starts
\* no export (no listUsers call, no file opened) and the run ends with the
\* error reported and exit code 1.
C10_TooManyPoolsFailsLoudly ==
  (cmd = "backup-all-users" /\ poolsMore) =>
    /\ listCalls = <<>>
    /\ curPool = 0
    /\ \A p \in Pools : ~fs[p].exists
    /\ poolsCall = "done" => (top \in {"caught", "exited"} /\ errorReported)
    /\ top = "exited" => exitCode = 1

C10_Witness ==
  /\ cmd = "backup-all-users"
  /\ poolsMore
  /\ numPools = 2
  /\ failBudget = MaxFailures
  /\ top = "exited"
  /\ exitCode = 1

\* A remote call, a sink write or the output file of pool p exists.
PoolTouched(p) ==
  \/ \E c \in 1..Len(listCalls) : listCalls[c].pool = p
  \/ \E c \in 1..Len(enrichCalls) : enrichCalls[c].pool = p
  \/ \E w \in 1..Len(written) : written[w].pool = p
  \/ fs[p].exists

\* C11: in backup-all-users the pools are exported strictly one after the
\* other: at most one pool's export is in progress at any time, and pool p+1
\* has no remote call, no sink write and no output file before the export of
\* pool p has run to completion (its stream ended, its file finished, its
\* promise resolved).
C11_PoolsStrictlySequential ==
  cmd = "backup-all-users" =>
    /\ Cardinality({p \in Pools : backupSettled[p] = "pending"}) <= 1
    /\ \A p \in Pools :
         (p > 1 /\ PoolTouched(p)) =>
           /\ fs[p - 1].cl
           /\ fs[p - 1].finished
           /\ backupSettled[p - 1] = "resolved"

C11_Witness ==
  /\ cmd = "backup-all-users"
  /\ numPools = 2
  /\ backupSettled[1] = "resolved"
  /\ backupSettled[2] = "resolved"
  /\ Len(WritesOf(1)) >= 2
  /\ Len(WritesOf(2)) >= 2
  /\ top = "exited"

\* A top-level failure of the running command: a remote call failed, the
\* input file is missing or not parseable, or the pool-count assertion failed.
TopLevelFailure ==
  \/ IsBackup /\ failBudget < MaxFailures
  \/ IsRestore /\ (failedCreates # {} \/ failedAdds # {})
  \/ IsRestore /\ readPc = "done" /\ ~Parseable(fs[1])
  \/ cmd = "backup-all-users" /\ poolsCall = "done" /\ poolsMore

\* C12: for every command the process exits with code 0 when the command
\* completed without failure and with code 1 when a top-level failure
\* occurred.
C12_ExitCodeZeroOrOne ==
  top = "exited" => exitCode = (IF TopLevelFailure THEN 1 ELSE 0)

\* The text of file f is one closed top-level JSON array.
WellFormedArray(f) == f.exists /\ f.op /\ f.cl /\ ~f.garbage

\* C13: restore-users and restore-groups issue no remote call before the
\* whole input file has been read and parsed (the records replayed are the
\* records of the file), and when the file is missing or is not a well-formed
\* JSON array the restore issues no remote call at all and fails: the error is
\* reported and the exit code is 1.
C13_LoadBeforeReplay ==
  IsRestore =>
    /\ (queue # <<>> \/ inflight # {} \/ createCalls # <<>> \/ groupCalls # <<>>) =>
         /\ readPc = "done"
         /\ WellFormedArray(fs[1])
         /\ users = fs[1].items
    /\ (readPc = "done" /\ ~WellFormedArray(fs[1])) =>
         /\ queue = <<>>
         /\ inflight = {}
         /\ createCalls = <<>>
         /\ groupCalls = <<>>
         /\ top \in {"caught", "exited"}
         /\ errorReported
         /\ exitCode = 1

C13_Witness ==
  /\ IsRestore
  /\ run = 1
  /\ fs[1].exists
  /\ fs[1].garbage
  /\ readPc = "done"
  /\ createCalls = <<>>
  /\ top = "exited"
  /\ exitCode = 1

\* The enrichment calls in flight, and those in flight or waiting in the limiter.
InflightEnrich == {j \in inflight : j.kind = "enrich"}

PendingEnrich ==
  InflightEnrich \cup {queue[k] : k \in {q \in 1..Len(queue) : queue[q].kind = "enrich"}}

\* The weakest concurrency limit that would hold back a call of a full page.
EnrichLimit == MaxPageSize - 1

PendingJobs == inflight \cup {queue[k] : k \in 1..Len(queue)}

RecordsInReplay == {j.rec : j \in PendingJobs}

C16_StartsOneIntervalApart ==
  cmd = "restore-users" =>
    \A k \in 1..Len(starts) :
      starts[k].kind \in {"create", "groupAdd"} => starts[k].gap >= RestoreMinTime

C16_Witness ==
  /\ RestoresUsers
  /\ Len(starts) >= 4
  /\ \E k \in 1..(Len(starts) - 1) :
       /\ starts[k].kind = "groupAdd"
       /\ starts[k + 1].kind = "groupAdd"
       /\ starts[k + 1].rec = starts[k].rec
  /\ \E k \in 1..(Len(starts) - 1) :
       /\ starts[k].kind = "groupAdd"
       /\ starts[k + 1].kind = "create"

\* The page of the listing that holds record number u of a pool.
PageOf(u) ==
  CHOOSE k \in 1..Len(pageSizes) : PageBase(k) < u /\ u <= PageBase(k) + pageSizes[k]

\* C17: within the export of a pool the listing call for page N+1 is issued
\* only after the answer for page N has arrived, every record of the pages
\* before N+1 has been written by then, no record of a page not yet answered
\* is written, and the writes are ordered by page.
C17_PagesInArrivalOrder ==
  \A p \in Pools :
    LET calls   == CallsOf(p)
        replies == RepliesOf(p)
        w       == WritesOf(p)
    IN /\ Len(calls) <= Len(replies) + 1
       /\ calls # <<>> => Len(w) >= PageBase(Len(calls))
       /\ Len(w) <= PageBase(Len(replies) + 1)
       /\ \A i, j \in 1..Len(w) :
            i < j => PageOf(KeyOf(w[i].rec)[2]) <= PageOf(KeyOf(w[j].rec)[2])

C17_Witness ==
  /\ Len(pageSizes) = 3
  /\ pageSizes[1] > 0
  /\ pageSizes[3] > 0
  /\ Len(RepliesOf(1)) = 3
  /\ Len(WritesOf(1)) = SumSeq(pageSizes)
  /\ backupSettled[1] = "resolved"

\* Record i of the page listed last has been written to the sink.
WrittenOfPage(i) ==
  \E w \in 1..Len(written) :
    /\ written[w].pool = curPool
    /\ KeyOf(written[w].rec) = KeyOf(pageData.Items[i])

\* C18 as stated: a record whose own enrichment call has completed is
\* written, whatever the state of the other enrichment calls of its page.
C18_WrittenOnOwnCompletion ==
  (IsBackup /\ Enriches /\ pageData.Items # <<>>) =>
    \A i \in DOMAIN enrich : enrich[i] = "ok" => WrittenOfPage(i)

\* C18, amended: the records of a page are written together, after every
\* enrichment call of the page has completed.  No record of a page is written
\* while an enrichment call of that page is in flight or waiting, and while
\* one of them has not completed, or has failed, none of the page's records
\* is in the sink.
C18_WrittenAfterWholePage ==
  (IsBackup /\ Enriches) =>
    /\ \A j \in PendingEnrich : Len(WritesOf(curPool)) <= PageBase(j.sub)
    /\ (pageData.Items # <<>> /\ \E i \in DOMAIN enrich : enrich[i] # "ok") =>
         /\ Len(WritesOf(curPool)) = PageBase(pageData.page)
         /\ \A i \in DOMAIN enrich : ~WrittenOfPage(i)

C18_Witness ==
  /\ cmd = "backup-users"
  /\ Enriches
  /\ pagePc = "enriching"
  /\ pageData.page = 2
  /\ enrich = <<"pending", "ok">>
  /\ Len(WritesOf(curPool)) = PageBase(2)
  /\ PageBase(2) > 0

\* C19: every record backupUsers writes is the record the listing returned,
\* Username and Attributes unchanged, with a Groups field added that holds
\* the group names, in order, that the service stores for that same user; the
\* export made exactly one enrichment call for that user before the write.
C19_GroupsOfTheSameUser ==
  (IsBackup /\ Enriches) =>
    \A w \in 1..Len(written) :
      LET rec == written[w].rec
          p   == written[w].pool
          u   == rec.Username[2]
      IN /\ rec.Username = ServiceUser(p, u).Username
         /\ rec.Attributes = ServiceUser(p, u).Attributes
         /\ DOMAIN rec = DOMAIN ServiceUser(p, u)
         /\ rec.hasGroups
         /\ rec.Groups = ServiceGroups(u)
         /\ Cardinality({c \in 1..Len(enrichCalls) :
                           /\ enrichCalls[c].pool = p
                           /\ enrichCalls[c].Username = rec.Username}) = 1

C19_Witness ==
  /\ cmd = "backup-users"
  /\ Enriches
  /\ pageSizes[1] = 2
  /\ Len(WritesOf(1)) >= 2
  /\ WritesOf(1)[1].rec.Groups = <<1>>
  /\ WritesOf(1)[2].rec.Groups = <<2, 1>>
  /\ starts[1].rec = 1
  /\ starts[2].rec = 2

\* The file of a pool is a closed JSON array only once the stream of that
\* pool's export has been ended.
ValidOnlyAfterEnd ==
  IsBackup =>
    \A p \in Pools :
      WellFormedArray(fs[p]) => (p < curPool \/ (p = curPool /\ endCalls > 0))

\* The file left behind by an export in which a listing or enrichment call
\* failed (the file as it is when the process has ended) is not a well-formed
\* JSON array.
FailedExportLeavesInvalidFile ==
  (exportFailed /\ top = "exited") => ~WellFormedArray(fs[curPool])

\* A restore run on the file of a failed export issues no create call and
\* fails at parsing.
RestoreOfFailedExportFails ==
  (run = 2 /\ exportFailed) =>
    /\ createCalls = <<>>
    /\ groupCalls = <<>>
    /\ readPc = "done" => (errorReported /\ exitCode = 1)

\* C20: no partial export file is valid.  The file of a pool is a well-formed,
\* closed JSON array only after the stream has been ended; the file left
\* behind by an export in which a listing or enrichment call failed is not a
\* well-formed JSON array, and a later restore of it fails at parsing and
\* issues no create call.
C20_NoPartialFileIsValid ==
  /\ ValidOnlyAfterEnd
  /\ FailedExportLeavesInvalidFile
  /\ RestoreOfFailedExportFails

\* C21: in backupUsers and backupGroups of the enrich revision stringify.end()
\* is called at most once per export, and exactly once when the export has
\* completed; it is called only after the answer without a cursor has
\* arrived and every listed record has been written; and no write reaches
\* the stream after its end (no write is dropped), for any number of pages.
C21_EndedOnceAfterLastPage ==
  (IsBackup /\ variant = "enrich" /\ curPool # 0) =>
    LET replies == RepliesOf(curPool)
        w       == WritesOf(curPool)
    IN /\ endCalls <= 1
       /\ fs[curPool].cl <=> endCalls = 1
       /\ backupSettled[curPool] = "resolved" => endCalls = 1
       /\ endCalls = 1 =>
            /\ replies # <<>>
            /\ replies[Len(replies)].token = NoToken
            /\ Len(replies) = Len(pageSizes)
            /\ Len(w) = SumSeq(pageSizes)
       /\ top # "exited" => fs[curPool].items = [i \in 1..Len(w) |-> w[i].rec]

C21_Witness ==
  /\ cmd \in {"backup-users", "backup-groups"}
  /\ variant = "enrich"
  /\ Len(pageSizes) = 3
  /\ Len(CallsOf(1)) = 3
  /\ Len(WritesOf(1)) >= 3
  /\ endCalls = 1
  /\ fs[1].finished
  /\ backupSettled[1] = "resolved"

\* C22: in backupUsers the records reach the sink in listing order, whatever
\* the order in which the enrichment calls complete: the i-th write of a pool
\* is the i-th record of the concatenation of the pages answered so far, and
\* the whole of the pages written is a prefix of that concatenation.
C22_ListingOrderPreserved ==
  (IsBackup /\ Enriches) =>
    \A p \in Pools :
      LET w == WritesOf(p) IN
      /\ Len(w) <= SumSeq(pageSizes)
      /\ \A i \in 1..Len(w) : KeyOf(w[i].rec) = <<p, i>>

C22_Witness ==
  /\ cmd = "backup-users"
  /\ Enriches
  /\ pageSizes[1] = 2
  /\ pagePc = "enriching"
  /\ pageData.page = 2
  /\ Len(pageData.Items) = 2
  /\ enrich = <<"pending", "ok">>
  /\ Len(WritesOf(1)) = 2
  /\ KeyOf(WritesOf(1)[1].rec) = <<1, 1>>
  /\ KeyOf(WritesOf(1)[2].rec) = <<1, 2>>

====
